---- MODULE Spec2Model ----
(***************************************************************************)
(* Model of the object deduplication and instance-selection code of        *)
(* DeClutter: OD.py (select_largest_instances, the batch loop of           *)
(* analyze_for_resellable_objects) and object_detection_pipeline.py        *)
(* (ObjectDetectionPipeline.select_largest_instances, process_single_image).*)
(*                                                                         *)
(* A Python dict is a sequence of <<key, value>> pairs with distinct keys, *)
(* in insertion order (the order .items() iterates in).                    *)
(***************************************************************************)
EXTENDS Integers, Sequences, FiniteSets, TLC

VARIABLES
    \* ---- select_largest_instances applied to one mapping (SelectSpec)
    sel_in,           \* the input mapping: coords -> [class_name, confidence]
    sel_ran,          \* which of the two functions have been applied
    sel_od,           \* result of OD.select_largest_instances
    sel_pipe,         \* result of ObjectDetectionPipeline.select_largest_instances
    \* ---- one detector output consolidated (ConsolidateSpec)
    con_raw,          \* what predict returned: boxes in order, class, confidence
    con_ran,          \* which of the two programs have consolidated it
    con_od,           \* filtered_detections of OD.py
    con_pipe,         \* filtered_detections of the pipeline
    \* ---- analyze_for_resellable_objects (Spec)
    YOLO_MODEL,                \* TRUE when the module-level model loaded
    pc,                        \* position of the call
    image_paths,               \* sorted(glob(folder/*.jpg))
    idx,                       \* number of loop iterations finished
    global_seen_objects,       \* the claimed set
    global_processed_objects,  \* per image: the objects recorded as new
    final_report_entries,      \* the list the call returns
    cropped_files,             \* crop files written by crop_and_save_image in this call
    image_log,                 \* what each finished iteration observed
    earlier_kept,              \* the labels the call before this one kept
    \* ---- ObjectDetectionPipeline.process_single_image (PipeSpec)
    yolo_model,                \* self.yolo_model is set
    supabase_client,           \* self.supabase_client is set
    current_photo_id,          \* self.current_photo_id
    job_pc,                    \* per job: position in process_single_image
    job_local,                 \* per job: its locals (timestamp, photo)
    job_result,                \* per job: the returned list
    job_input,                 \* per job: what the call observed of its image
    photos,                    \* rows of table "photos"
    cropped_rows,              \* rows of table "cropped"
    clock,                     \* int(time.time())
    \* ---- the job API: process_image_async, the routes, load_jobs (JobSpec)
    pipeline,                  \* the global pipeline is set
    processing_status,         \* job id -> its status entry
    jobs_file,                 \* what jobs.json holds
    thread_pc,                 \* per job id: position of its background thread
    thread_left,               \* per job id: objects phase 2 has still to price
    temp_uploads,              \* job ids whose uploaded image is in temp_uploads/
    \* ---- ObjectDetectionPipeline.run_complete_pipeline (RunSpec)
    rcp_pc,                    \* position of the call
    rcp_objects,               \* what process_single_image returned
    rcp_i,                     \* objects the loop of lines 751-819 is done with
    rcp_results                \* pipeline_results, or the error dict

sel_vars  == <<sel_in, sel_ran, sel_od, sel_pipe>>
con_vars  == <<con_raw, con_ran, con_od, con_pipe>>
od_vars   == <<YOLO_MODEL, pc, image_paths, idx, global_seen_objects,
               global_processed_objects, final_report_entries, cropped_files,
               image_log, earlier_kept>>
pipe_vars == <<yolo_model, supabase_client, current_photo_id, job_pc, job_local,
               job_result, job_input, photos, cropped_rows, clock>>
job_vars  == <<pipeline, processing_status, jobs_file, thread_pc, thread_left,
               temp_uploads>>
run_vars  == <<rcp_pc, rcp_objects, rcp_i, rcp_results>>
vars      == <<sel_vars, con_vars, od_vars, pipe_vars, job_vars, run_vars>>

----------------------------------------------------------------------------
\* Bounds of the model.

\* longest mapping given to select_largest_instances
MaxLen == 3
\* most images in one batch
MaxImages == 2
\* most raw detections the detector returns for one image
MaxDet == 2
\* most calls of process_single_image on the shared pipeline instance
MaxJobs == 1
\* latest value of int(time.time())
MaxClock == 1
\* most uploads the API takes as background jobs
MaxUploads == 2
\* most objects process_single_image returns to its caller
MaxObjects == 2

----------------------------------------------------------------------------
\* Python dicts.

DictHas(d, k) == \E i \in 1..Len(d) : d[i][1] = k

DictGet(d, k) == d[CHOOSE i \in 1..Len(d) : d[i][1] = k][2]

\* d[k] = v: an existing key keeps its position and takes the new value
DictSet(d, k, v) ==
    IF DictHas(d, k)
    THEN [i \in 1..Len(d) |-> IF d[i][1] = k THEN <<k, v>> ELSE d[i]]
    ELSE Append(d, <<k, v>>)

----------------------------------------------------------------------------
\* Bounding boxes (x_min, y_min, x_max, y_max): areas 1, 2, 2, 4, 0 and -1.

Boxes == { <<0, 0, 1, 1>>, <<0, 0, 2, 1>>, <<0, 0, 1, 2>>, <<0, 0, 2, 2>>,
           <<1, 0, 1, 2>>, <<2, 0, 1, 1>> }

SelLabels == {"laptop", "book"}

\* confidences, in tenths
Confidences == {3, 9}

calculate_bbox_area(coords) ==
    (coords[3] - coords[1]) * (coords[4] - coords[2])

\* OD_UpdateLargest with the comparison turned round
OD_UpdateLargest_Smaller(class_largest, coords, class_name) ==
    LET area == calculate_bbox_area(coords) IN
    IF ~DictHas(class_largest, class_name)
    THEN DictSet(class_largest, class_name, <<coords, area>>)
    ELSE LET current_area == DictGet(class_largest, class_name)[2] IN
         IF area < current_area
         THEN DictSet(class_largest, class_name, <<coords, area>>)
         ELSE class_largest

\* OD_UpdateLargest replacing the current choice also on an equal area
OD_UpdateLargest_GreaterEqual(class_largest, coords, class_name) ==
    LET area == calculate_bbox_area(coords) IN
    IF ~DictHas(class_largest, class_name)
    THEN DictSet(class_largest, class_name, <<coords, area>>)
    ELSE LET current_area == DictGet(class_largest, class_name)[2] IN
         IF area >= current_area
         THEN DictSet(class_largest, class_name, <<coords, area>>)
         ELSE class_largest

\* OD_UpdateLargest passing over a box whose area is not positive
OD_UpdateLargest_SkipsDegenerate(class_largest, coords, class_name) ==
    LET area == calculate_bbox_area(coords) IN
    IF area <= 0
    THEN class_largest
    ELSE IF ~DictHas(class_largest, class_name)
         THEN DictSet(class_largest, class_name, <<coords, area>>)
         ELSE LET current_area == DictGet(class_largest, class_name)[2] IN
              IF area > current_area
              THEN DictSet(class_largest, class_name, <<coords, area>>)
              ELSE class_largest

\* One iteration of the loop of OD.select_largest_instances.
\* class_largest: class_name -> <<coords, area>>
OD_UpdateLargest(class_largest, coords, class_name) ==
    LET area == calculate_bbox_area(coords) IN
    IF ~DictHas(class_largest, class_name)
    THEN DictSet(class_largest, class_name, <<coords, area>>)
    ELSE LET current_area == DictGet(class_largest, class_name)[2] IN
         IF area > current_area
         THEN DictSet(class_largest, class_name, <<coords, area>>)
         ELSE class_largest

RECURSIVE OD_ClassLargest(_, _)
OD_ClassLargest(all_detections, n) ==
    IF n = 0 THEN <<>>
    ELSE OD_UpdateLargest(OD_ClassLargest(all_detections, n - 1),
                          all_detections[n][1], all_detections[n][2])

\* "Convert back to the original format": filtered_detections[coords] = class_name
RECURSIVE OD_ConvertBack(_, _)
OD_ConvertBack(class_largest, n) ==
    IF n = 0 THEN <<>>
    ELSE DictSet(OD_ConvertBack(class_largest, n - 1),
                 class_largest[n][2][1], class_largest[n][1])

\* OD.select_largest_instances: all_detections is coords -> class_name
select_largest_instances(all_detections) ==
    LET class_largest == OD_ClassLargest(all_detections, Len(all_detections))
    IN  OD_ConvertBack(class_largest, Len(class_largest))

\* Pipe_UpdateLargest comparing confidences where the code compares areas
Pipe_UpdateLargest_ByConfidence(class_largest, coords, detection) ==
    LET class_name == detection.class_name
        area == calculate_bbox_area(coords) IN
    IF ~DictHas(class_largest, class_name)
    THEN DictSet(class_largest, class_name, <<coords, detection, area>>)
    ELSE LET current == DictGet(class_largest, class_name)[2] IN
         IF detection.confidence > current.confidence
         THEN DictSet(class_largest, class_name, <<coords, detection, area>>)
         ELSE class_largest

\* One iteration of the loop of ObjectDetectionPipeline.select_largest_instances.
\* class_largest: class_name -> <<coords, detection, area>>
Pipe_UpdateLargest(class_largest, coords, detection) ==
    LET class_name == detection.class_name
        area == calculate_bbox_area(coords) IN
    IF ~DictHas(class_largest, class_name)
    THEN DictSet(class_largest, class_name, <<coords, detection, area>>)
    ELSE LET current_area == DictGet(class_largest, class_name)[3] IN
         IF area > current_area
         THEN DictSet(class_largest, class_name, <<coords, detection, area>>)
         ELSE class_largest

\* Pipe_ClassLargest stopping one entry short of the end of the mapping
RECURSIVE Pipe_ClassLargest_SkipsLast(_, _)
Pipe_ClassLargest_SkipsLast(all_detections, n) ==
    IF n <= 1 THEN <<>>
    ELSE Pipe_UpdateLargest(Pipe_ClassLargest_SkipsLast(all_detections, n - 1),
                            all_detections[n - 1][1], all_detections[n - 1][2])

RECURSIVE Pipe_ClassLargest(_, _)
Pipe_ClassLargest(all_detections, n) ==
    IF n = 0 THEN <<>>
    ELSE Pipe_UpdateLargest(Pipe_ClassLargest(all_detections, n - 1),
                            all_detections[n][1], all_detections[n][2])

RECURSIVE Pipe_ConvertBack(_, _)
Pipe_ConvertBack(class_largest, n) ==
    IF n = 0 THEN <<>>
    ELSE DictSet(Pipe_ConvertBack(class_largest, n - 1),
                 class_largest[n][2][1], class_largest[n][2][2])

\* ObjectDetectionPipeline.select_largest_instances:
\* all_detections is coords -> [class_name, confidence]
Pipe_select_largest_instances(all_detections) ==
    LET class_largest == Pipe_ClassLargest(all_detections, Len(all_detections))
    IN  Pipe_ConvertBack(class_largest, Len(class_largest))

----------------------------------------------------------------------------
\* SelectSpec: select_largest_instances applied to one mapping.

\* what the pipeline stores per box
Detections == [class_name : SelLabels, confidence : Confidences]

\* every mapping coords -> detection with at most MaxLen entries
SelInputs ==
    { m \in UNION { [1..n -> Boxes \X Detections] : n \in 0..MaxLen } :
        \A i, j \in 1..Len(m) : m[i][1] = m[j][1] => i = j }

\* the same mapping as OD.py holds it: coords -> class_name
ODView(m) == [i \in 1..Len(m) |-> <<m[i][1], m[i][2].class_name>>]

SelInit ==
    /\ sel_in \in SelInputs
    /\ sel_ran = {}
    /\ sel_od = <<>>
    /\ sel_pipe = <<>>

ApplySelectOD ==
    /\ "od" \notin sel_ran
    /\ sel_od' = select_largest_instances(ODView(sel_in))
    /\ sel_ran' = sel_ran \cup {"od"}
    /\ UNCHANGED <<sel_in, sel_pipe>>

ApplySelectPipeline ==
    /\ "pipeline" \notin sel_ran
    /\ sel_pipe' = Pipe_select_largest_instances(sel_in)
    /\ sel_ran' = sel_ran \cup {"pipeline"}
    /\ UNCHANGED <<sel_in, sel_od>>

----------------------------------------------------------------------------
\* analyze_for_resellable_objects (OD.py): inputs.

\* class names the detector can report
BatchLabels == {"laptop", "Laptop", "cell phone"}

\* names the classifier's reply can hold
ReplyNames == {"laptop", "Cell Phone"}

BatchBoxes == { <<0, 0, 1, 1>>, <<0, 0, 2, 2>> }

\* str.lower()
Lower(s) ==
    CASE s = "Laptop"     -> "laptop"
      [] s = "Cell Phone" -> "cell phone"
      [] OTHER            -> s

\* class_name.replace(" ", "_")
SafeClassName(s) ==
    CASE s = "cell phone" -> "cell_phone"
      [] s = "Cell Phone" -> "Cell_Phone"
      [] OTHER            -> s

\* capture_and_analyze empties CAPTURE_FOLDER and then writes frame_<ts>.jpg
\* with ts = int(time.time()), at most one per second (lines 364-371).
FrameName(ts) == [stem |-> "frame", ts |-> ts]

\* os.path.basename(filename).split('_')[1].split('.')[0]
TimestampOf(filename) == filename.ts

\* sorted(glob.glob(os.path.join(folder, "*.jpg"))): ascending timestamps
Folders == { [i \in 1..n |-> FrameName(i)] : n \in 0..MaxImages }

\* what YOLO_MODEL.predict returns: boxes in order, each with a class name
RawOutputs ==
    UNION { [1..n -> BatchBoxes \X BatchLabels] : n \in 0..MaxDet }

\* the loop of lines 214-221: all_detections[coords] = class_name
RECURSIVE BuildAllDetections(_, _)
BuildAllDetections(raw, n) ==
    IF n = 0 THEN <<>>
    ELSE DictSet(BuildAllDetections(raw, n - 1), raw[n][1], raw[n][2])

\* lines 212-228 for every detector output with at least one box:
\* filtered_detections = select_largest_instances(all_detections)
FilteredOutputs ==
    { select_largest_instances(BuildAllDetections(raw, Len(raw))) :
        raw \in { r \in RawOutputs : BuildAllDetections(r, Len(r)) # <<>> } }

\* What process_image_and_objects_for_resale hands back, as eval() reads it: a
\* list of names, or something else.  "call_raises": the call to the classifier
\* raised inside process_image_and_objects_for_resale, which catches every
\* exception and returns "[]" (gemini_ACCESS.py lines 68-70).
Replies ==
    [kind : {"list"}, names : SUBSET ReplyNames]
      \cup [kind : {"not_a_list", "eval_raises", "non_string_items", "call_raises"},
            names : {{}}]

\* resellable_names after lines 244-251
ResellableNames(reply) ==
    IF reply.kind \in {"list", "non_string_items"} THEN reply.names ELSE {}

\* [name.lower() for name in resellable_names], as the set it is used as
Normalized(names) == { Lower(n) : n \in names }

\* os.path.basename(crop_and_save_image(...)) when the crop is saved
CropFileName(class_name, capture_ts, crop_index) ==
    <<capture_ts, crop_index, SafeClassName(class_name)>>

\* DedupStep without the test against global_seen_objects
DedupStep_NoSeenCheck(st, coords, class_name, normalized, ts, saved) ==
    IF Lower(class_name) \in normalized
    THEN LET ci == st.crop_index + 1
             out == CropFileName(class_name, ts, ci)
         IN  [seen |-> st.seen \cup {Lower(class_name)},
              crop_index |-> ci,
              new_objects |->
                  IF saved
                  THEN Append(st.new_objects,
                              [name |-> class_name, coords |-> coords,
                               area |-> calculate_bbox_area(coords),
                               crop_file |-> out])
                  ELSE st.new_objects,
              files |-> IF saved THEN st.files \cup {out} ELSE st.files]
    ELSE st

\* DedupStep assigning the claimed set where the code adds to it
DedupStep_AssignsSeen(st, coords, class_name, normalized, ts, saved) ==
    IF Lower(class_name) \in normalized /\ Lower(class_name) \notin st.seen
    THEN LET ci == st.crop_index + 1
             out == CropFileName(class_name, ts, ci)
         IN  [seen |-> {Lower(class_name)},
              crop_index |-> ci,
              new_objects |->
                  IF saved
                  THEN Append(st.new_objects,
                              [name |-> class_name, coords |-> coords,
                               area |-> calculate_bbox_area(coords),
                               crop_file |-> out])
                  ELSE st.new_objects,
              files |-> IF saved THEN st.files \cup {out} ELSE st.files]
    ELSE st

\* DedupStep recording the object whether or not its crop was saved
DedupStep_RecordsUnsaved(st, coords, class_name, normalized, ts, saved) ==
    IF Lower(class_name) \in normalized /\ Lower(class_name) \notin st.seen
    THEN LET ci == st.crop_index + 1
             out == CropFileName(class_name, ts, ci)
         IN  [seen |-> st.seen \cup {Lower(class_name)},
              crop_index |-> ci,
              new_objects |->
                  IF TRUE
                  THEN Append(st.new_objects,
                              [name |-> class_name, coords |-> coords,
                               area |-> calculate_bbox_area(coords),
                               crop_file |-> out])
                  ELSE st.new_objects,
              files |-> IF saved THEN st.files \cup {out} ELSE st.files]
    ELSE st

\* DedupStep without the match against the classifier's names
DedupStep_NoClassifierMatch(st, coords, class_name, normalized, ts, saved) ==
    IF Lower(class_name) \notin st.seen
    THEN LET ci == st.crop_index + 1
             out == CropFileName(class_name, ts, ci)
         IN  [seen |-> st.seen \cup {Lower(class_name)},
              crop_index |-> ci,
              new_objects |->
                  IF saved
                  THEN Append(st.new_objects,
                              [name |-> class_name, coords |-> coords,
                               area |-> calculate_bbox_area(coords),
                               crop_file |-> out])
                  ELSE st.new_objects,
              files |-> IF saved THEN st.files \cup {out} ELSE st.files]
    ELSE st

\* DedupStep with the claimed set holding and testing the label as detected
DedupStep_ExactSeen(st, coords, class_name, normalized, ts, saved) ==
    IF Lower(class_name) \in normalized /\ class_name \notin st.seen
    THEN LET ci == st.crop_index + 1
             out == CropFileName(class_name, ts, ci)
         IN  [seen |-> st.seen \cup {class_name},
              crop_index |-> ci,
              new_objects |->
                  IF saved
                  THEN Append(st.new_objects,
                              [name |-> class_name, coords |-> coords,
                               area |-> calculate_bbox_area(coords),
                               crop_file |-> out])
                  ELSE st.new_objects,
              files |-> IF saved THEN st.files \cup {out} ELSE st.files]
    ELSE st

\* The body of the loop of lines 267-289 for entry n of filtered_detections.
\* st: [seen, crop_index, new_objects, files]; crop_ok[n]: the crop is saved.
DedupStep(st, coords, class_name, normalized, ts, saved) ==
    IF Lower(class_name) \in normalized
    THEN IF Lower(class_name) \notin st.seen
         THEN LET ci == st.crop_index + 1
                  out == CropFileName(class_name, ts, ci)
              IN  [seen |-> st.seen \cup {Lower(class_name)},
                   crop_index |-> ci,
                   new_objects |->
                       IF saved
                       THEN Append(st.new_objects,
                                   [name |-> class_name, coords |-> coords,
                                    area |-> calculate_bbox_area(coords),
                                    crop_file |-> out])
                       ELSE st.new_objects,
                   files |-> IF saved THEN st.files \cup {out} ELSE st.files]
         ELSE st
    ELSE st

RECURSIVE DedupLoop(_, _, _, _, _, _)
DedupLoop(filtered, n, seen, normalized, ts, crop_ok) ==
    IF n = 0
    THEN [seen |-> seen, crop_index |-> 0, new_objects |-> <<>>, files |-> {}]
    ELSE DedupStep(DedupLoop(filtered, n - 1, seen, normalized, ts, crop_ok),
                   filtered[n][1], filtered[n][2], normalized, ts, crop_ok[n])

\* Whether each crop of the image is saved (crop_and_save_image returns a path)
\* or not (it returns None): an outcome for every entry of filtered_detections
\* that can reach line 277; the other entries are never cropped.
CropOutcomes(filtered, normalized, seen) ==
    { crop_ok \in [1..Len(filtered) -> BOOLEAN] :
        \A n \in 1..Len(filtered) :
            (Lower(filtered[n][2]) \notin normalized \/ Lower(filtered[n][2]) \in seen)
               => crop_ok[n] }

\* the entries of filtered_detections the classifier accepted
Eligible(filtered, normalized) ==
    { <<filtered[n][2], filtered[n][1]>> : n \in
        { k \in 1..Len(filtered) : Lower(filtered[k][2]) \in normalized } }

\* the class names of filtered_detections the classifier did not accept, in the
\* lower case they are matched in (line 269)
Rejected(filtered, normalized) ==
    { Lower(filtered[n][2]) : n \in
        { k \in 1..Len(filtered) : Lower(filtered[k][2]) \notin normalized } }

----------------------------------------------------------------------------
\* analyze_for_resellable_objects (OD.py): the call, one action per path
\* through the function head, through one loop iteration, and the report.

\* the objects recorded as new, in the order they were recorded
KeptItems(processed) ==
    LET RECURSIVE Flat(_)
        Flat(n) ==
            IF n = 0 THEN <<>>
            ELSE Flat(n - 1) \o
                 [k \in 1..Len(processed[n].objects) |->
                     [filename |-> processed[n].filename,
                      name |-> processed[n].objects[k].name,
                      coords |-> processed[n].objects[k].coords,
                      crop_file |-> processed[n].objects[k].crop_file]]
    IN  Flat(Len(processed))

\* "Capture: <file> - Analysis Failed: <e>"
FailedEntry(filename) == [kind |-> "failed", filename |-> filename]

\* one report entry of lines 304-319
ReportEntry(image_data) ==
    [kind |-> "report",
     filename |-> image_data.filename,
     object_names |-> [k \in 1..Len(image_data.objects) |-> image_data.objects[k].name],
     crop_files |-> [k \in 1..Len(image_data.objects) |-> image_data.objects[k].crop_file],
     first_coords |-> image_data.objects[1].coords]

\* what one finished iteration observed
\* raised: "none", "detector", "classifier" or "reply_items";
\* crop_failures: the crops of the image that were not saved
LogEntry(filename, predicted, n_boxes, eligible, rejected, raised, crop_failures) ==
    [filename |-> filename, predicted |-> predicted,
     no_detections |-> predicted /\ n_boxes = 0,
     eligible |-> eligible, rejected |-> rejected,
     failed |-> raised \in {"detector", "reply_items"},
     raised |-> raised, crop_failures |-> crop_failures]

\* the labels of the objects recorded as new, in lower case
KeptNames(processed) ==
    { Lower(KeptItems(processed)[k].name) : k \in 1..Len(KeptItems(processed)) }

\* RecordNewObjects keeping the newest image's objects only
RecordNewObjects_KeepsLatest(processed, filename, new_objects_this_image) ==
    IF new_objects_this_image # <<>>
    THEN <<[filename |-> filename, objects |-> new_objects_this_image]>>
    ELSE processed

\* RecordNewObjects putting the newest image first
RecordNewObjects_Prepends(processed, filename, new_objects_this_image) ==
    IF new_objects_this_image # <<>>
    THEN <<[filename |-> filename, objects |-> new_objects_this_image]>>
             \o processed
    ELSE processed

\* lines 291-296: if new_objects_this_image: global_processed_objects.append(...)
RecordNewObjects(processed, filename, new_objects_this_image) ==
    IF new_objects_this_image # <<>>
    THEN Append(processed,
                [filename |-> filename, objects |-> new_objects_this_image])
    ELSE processed

\* FreshLocals with the claimed set living on from call to call
FreshLocals_KeepsSeen ==
    /\ idx' = 0
    /\ global_seen_objects' = global_seen_objects
    /\ global_processed_objects' = <<>>
    /\ final_report_entries' = <<>>
    /\ cropped_files' = {}
    /\ image_log' = <<>>
    /\ earlier_kept' = KeptNames(global_processed_objects)

\* lines 190-191 and the locals of a new call
FreshLocals ==
    /\ idx' = 0
    /\ global_seen_objects' = {}
    /\ global_processed_objects' = <<>>
    /\ final_report_entries' = <<>>
    /\ cropped_files' = {}
    /\ image_log' = <<>>
    /\ earlier_kept' = KeptNames(global_processed_objects)

CanCall == pc \in {"idle", "done"}

\* lines 183-184: if not YOLO_MODEL: return []
CallNoModel ==
    /\ CanCall
    /\ ~YOLO_MODEL
    /\ image_paths' = <<>>
    /\ FreshLocals
    /\ pc' = "done"
    /\ UNCHANGED YOLO_MODEL

\* CallNoImages returning a notice instead of the empty list
CallNoImages_ReturnsNotice ==
    /\ CanCall
    /\ YOLO_MODEL
    /\ image_paths' = <<>>
    /\ idx' = 0
    /\ global_seen_objects' = {}
    /\ global_processed_objects' = <<>>
    /\ final_report_entries' = <<[kind |-> "notice"]>>
    /\ cropped_files' = {}
    /\ image_log' = <<>>
    /\ earlier_kept' = KeptNames(global_processed_objects)
    /\ pc' = "done"
    /\ UNCHANGED YOLO_MODEL

\* lines 187-198: the folder holds no *.jpg
CallNoImages ==
    /\ CanCall
    /\ YOLO_MODEL
    /\ image_paths' = <<>>
    /\ FreshLocals
    /\ pc' = "done"
    /\ UNCHANGED YOLO_MODEL

\* lines 187-200: the loop is entered
CallStart ==
    /\ CanCall
    /\ YOLO_MODEL
    /\ \E paths \in Folders \ {<<>>} : image_paths' = paths
    /\ FreshLocals
    /\ pc' = "loop"
    /\ UNCHANGED YOLO_MODEL

InLoop == pc = "loop" /\ idx < Len(image_paths)

\* ImageDetectorRaises with the exception leaving the loop, ending the call
ImageDetectorRaises_AbortsBatch ==
    /\ InLoop
    /\ final_report_entries' =
           Append(final_report_entries, FailedEntry(image_paths[idx + 1]))
    /\ image_log' = Append(image_log,
           LogEntry(image_paths[idx + 1], FALSE, 0, {}, {}, "detector", 0))
    /\ idx' = idx + 1
    /\ pc' = "done"
    /\ UNCHANGED <<YOLO_MODEL, image_paths, earlier_kept, global_seen_objects,
                   global_processed_objects, cropped_files>>

\* line 208 raises: lines 298-300
ImageDetectorRaises ==
    /\ InLoop
    /\ final_report_entries' =
           Append(final_report_entries, FailedEntry(image_paths[idx + 1]))
    /\ image_log' = Append(image_log,
           LogEntry(image_paths[idx + 1], FALSE, 0, {}, {}, "detector", 0))
    /\ idx' = idx + 1
    /\ UNCHANGED <<YOLO_MODEL, pc, image_paths, earlier_kept, global_seen_objects,
                   global_processed_objects, cropped_files>>

\* ImageNoDetections reporting the image as failed
ImageNoDetections_ReportsFailure ==
    /\ InLoop
    /\ image_log' = Append(image_log,
           LogEntry(image_paths[idx + 1], TRUE, 0, {}, {}, "none", 0))
    /\ final_report_entries' =
           Append(final_report_entries, FailedEntry(image_paths[idx + 1]))
    /\ idx' = idx + 1
    /\ UNCHANGED <<YOLO_MODEL, pc, image_paths, earlier_kept, global_seen_objects,
                   global_processed_objects, cropped_files>>

\* lines 223-225: if not all_detections: continue
ImageNoDetections ==
    /\ InLoop
    /\ \E raw \in RawOutputs :
         /\ BuildAllDetections(raw, Len(raw)) = <<>>
         /\ image_log' = Append(image_log,
                LogEntry(image_paths[idx + 1], TRUE, Len(raw), {}, {}, "none", 0))
    /\ idx' = idx + 1
    /\ UNCHANGED <<YOLO_MODEL, pc, image_paths, earlier_kept, global_seen_objects,
                   global_processed_objects, final_report_entries,
                   cropped_files>>

\* line 254 raises on a reply item that is no string: lines 298-300
ImageReplyNotStrings ==
    /\ InLoop
    /\ \E reply \in Replies :
         LET filtered_detections == CHOOSE f \in FilteredOutputs : TRUE
         IN  /\ reply.kind = "non_string_items"
             /\ image_log' = Append(image_log,
                    LogEntry(image_paths[idx + 1], TRUE, Len(filtered_detections),
                             {}, {}, "reply_items", 0))
    /\ final_report_entries' =
           Append(final_report_entries, FailedEntry(image_paths[idx + 1]))
    /\ idx' = idx + 1
    /\ UNCHANGED <<YOLO_MODEL, pc, image_paths, earlier_kept, global_seen_objects,
                   global_processed_objects, cropped_files>>

\* lines 256-258: if not resellable_names_normalized: continue
ImageNothingResellable ==
    /\ InLoop
    /\ \E filtered_detections \in FilteredOutputs, reply \in Replies :
         /\ reply.kind # "non_string_items"
         /\ Normalized(ResellableNames(reply)) = {}
         /\ image_log' = Append(image_log,
                LogEntry(image_paths[idx + 1], TRUE, Len(filtered_detections),
                         {}, Rejected(filtered_detections, {}),
                         IF reply.kind = "call_raises" THEN "classifier" ELSE "none",
                         0))
    /\ idx' = idx + 1
    /\ UNCHANGED <<YOLO_MODEL, pc, image_paths, earlier_kept, global_seen_objects,
                   global_processed_objects, final_report_entries,
                   cropped_files>>

\* lines 262-296: deduplication and cropping
ImageDedup ==
    /\ InLoop
    /\ \E filtered_detections \in FilteredOutputs, reply \in Replies :
         LET filename == image_paths[idx + 1]
             normalized == Normalized(ResellableNames(reply))
         IN  /\ reply.kind # "non_string_items"
             /\ normalized # {}
             /\ \E crop_ok \in CropOutcomes(filtered_detections, normalized,
                                              global_seen_objects) :
                  LET r == DedupLoop(filtered_detections, Len(filtered_detections),
                                     global_seen_objects, normalized,
                                     TimestampOf(filename), crop_ok)
                  IN  /\ global_seen_objects' = r.seen
                      /\ cropped_files' = cropped_files \cup r.files
                      /\ global_processed_objects' =
                             RecordNewObjects(global_processed_objects,
                                              filename, r.new_objects)
                      /\ image_log' = Append(image_log,
                             LogEntry(filename, TRUE, Len(filtered_detections),
                                      Eligible(filtered_detections, normalized),
                                      Rejected(filtered_detections, normalized),
                                      "none",
                                      r.crop_index - Len(r.new_objects)))
    /\ idx' = idx + 1
    /\ UNCHANGED <<YOLO_MODEL, pc, image_paths, final_report_entries,
                   earlier_kept>>

\* lines 302-324: the report from global_processed_objects, and the return
GenerateReport ==
    /\ pc = "loop"
    /\ idx = Len(image_paths)
    /\ final_report_entries' = final_report_entries \o
           [n \in 1..Len(global_processed_objects) |->
               ReportEntry(global_processed_objects[n])]
    /\ pc' = "done"
    /\ UNCHANGED <<YOLO_MODEL, image_paths, idx, global_seen_objects,
                   global_processed_objects, cropped_files, image_log,
                   earlier_kept>>

----------------------------------------------------------------------------
\* ObjectDetectionPipeline.process_single_image (object_detection_pipeline.py).
\* Each job is one call on the shared instance; the API starts each call in a
\* thread of its own (pipeline_api.py lines 487-496).

Jobs == 1..MaxJobs

\* class names the detector can report to the pipeline
PipeLabels == {"laptop", "clock"}

\* img.size of the uploaded image
ImageSize == <<2, 2>>

\* float(box.conf[0].item()) of a reported box, in tenths
PipeConfidences == {9}

\* what self.yolo_model.predict returns: boxes in order, with class and confidence
PipeRawOutputs ==
    UNION { [1..n -> BatchBoxes \X PipeLabels \X PipeConfidences] : n \in 0..MaxDet }

\* lines 243-247: 'clock' is reported as 'watch'
MapClassName(class_name) ==
    IF class_name = "clock" THEN "watch" ELSE class_name

\* the loop of lines 239-255: all_detections[coords] = {class_name, confidence}
RECURSIVE PipeBuildAllDetections(_, _)
PipeBuildAllDetections(raw, n) ==
    IF n = 0 THEN <<>>
    ELSE DictSet(PipeBuildAllDetections(raw, n - 1), raw[n][1],
                 [class_name |-> MapClassName(raw[n][2]), confidence |-> raw[n][3]])

\* WithFallback leaving an empty mapping empty
WithFallback_None(all_detections) == all_detections

\* lines 257-269: with no detection the whole image becomes one "item"
WithFallback(all_detections) ==
    IF all_detections = <<>>
    THEN <<<< <<0, 0, ImageSize[1], ImageSize[2]>>,
              [class_name |-> "item", confidence |-> 10] >>>>
    ELSE all_detections

\* ConsolidateSpec: one detector output turned into filtered_detections, by
\* OD.py (lines 212-228) and by the pipeline (lines 239-272).

ConLabels == {"laptop", "clock"}

\* what predict returns: boxes in order (two of them may have the same
\* coordinates once truncated to int), each with a class and a confidence
ConRawOutputs ==
    UNION { [1..n -> Boxes \X ConLabels \X Confidences] : n \in 0..MaxDet }

ConInit ==
    /\ con_raw \in ConRawOutputs
    /\ con_ran = {}
    /\ con_od = <<>>
    /\ con_pipe = <<>>

\* OD.py lines 212-228
ConsolidateOD ==
    /\ "od" \notin con_ran
    /\ LET all_detections == BuildAllDetections(con_raw, Len(con_raw))
       IN  con_od' = IF all_detections = <<>>
                     THEN <<>>
                     ELSE select_largest_instances(all_detections)
    /\ con_ran' = con_ran \cup {"od"}
    /\ UNCHANGED <<con_raw, con_pipe>>

\* object_detection_pipeline.py lines 239-272
ConsolidatePipeline ==
    /\ "pipeline" \notin con_ran
    /\ LET all_detections == PipeBuildAllDetections(con_raw, Len(con_raw))
       IN  con_pipe' = Pipe_select_largest_instances(WithFallback(all_detections))
    /\ con_ran' = con_ran \cup {"pipeline"}
    /\ UNCHANGED <<con_raw, con_od>>

\* filter_resellable_objects dropping the names an earlier call on the same
\* instance has already processed
filter_resellable_objects_DropsProcessed(detected_objects) ==
    detected_objects \
        UNION { { job_result[j][n].object_name : n \in 1..Len(job_result[j]) } :
                  j \in DOMAIN job_result }

\* lines 273, 389-395: filter_resellable_objects returns the unique class names
filter_resellable_objects(detected_objects) == detected_objects

\* object_name.replace(" ", "_").replace("/", "_"): the names used hold neither
SafeObjectName(object_name) == object_name

\* crop_path of crop_and_save_object, lines 425-427
CropPath(object_name, timestamp, index) ==
    <<"cropped_resellables", timestamp, index, SafeObjectName(object_name), "png">>

\* The body of the loop of lines 290-347 for one entry of filtered_detections.
\* st: [crop_index, processed_objects, rows]
CropStep(st, coords, detection, resellable_objects, timestamp, photo_id, saved, row_saved) ==
    IF Lower(detection.class_name) \in { Lower(obj) : obj \in resellable_objects }
    THEN LET ci == st.crop_index + 1 IN
         IF saved
         THEN [crop_index |-> ci,
               processed_objects |->
                   Append(st.processed_objects,
                          [object_name |-> detection.class_name,
                           confidence |-> detection.confidence,
                           coordinates |-> coords,
                           cropped_path |->
                               CropPath(detection.class_name, timestamp, ci)]),
               rows |-> IF row_saved /\ photo_id # 0
                        THEN st.rows \cup
                               {[photo_id |-> photo_id,
                                 object_name |-> detection.class_name,
                                 cropped_path |->
                                     CropPath(detection.class_name, timestamp, ci)]}
                        ELSE st.rows]
         ELSE [st EXCEPT !.crop_index = ci]
    ELSE st

RECURSIVE CropLoop(_, _, _, _, _, _, _)
CropLoop(filtered, n, resellable_objects, timestamp, photo_id, crop_ok, row_saved) ==
    IF n = 0
    THEN [crop_index |-> 0, processed_objects |-> <<>>, rows |-> {}]
    ELSE CropStep(CropLoop(filtered, n - 1, resellable_objects, timestamp,
                           photo_id, crop_ok, row_saved),
                  filtered[n][1], filtered[n][2], resellable_objects, timestamp,
                  photo_id, crop_ok[n], row_saved)

\* lines 239-272 for every detector output: the consolidated detections
PipeFilteredOutputs(with_boxes) ==
    { Pipe_select_largest_instances(
          WithFallback(PipeBuildAllDetections(raw, Len(raw)))) :
        raw \in { r \in PipeRawOutputs : (Len(r) > 0) = with_boxes } }

\* what a call observed: the image file exists, predict returned, it returned
\* no box, the image could be opened for the fallback, crops that were not
\* saved, and the class names of the consolidated detections (line 272)
Observed(exists, predicted, no_detections, opened, crop_failures, class_names) ==
    [exists |-> exists, predicted |-> predicted, no_detections |-> no_detections,
     opened |-> opened, crop_failures |-> crop_failures,
     class_names |-> class_names]

\* time passes
Tick ==
    /\ clock < MaxClock
    /\ clock' = clock + 1
    /\ UNCHANGED <<yolo_model, supabase_client, current_photo_id, job_pc,
                   job_local, job_result, job_input, photos, cropped_rows>>

\* lines 198-200: if not self.yolo_model: return []
PSI_NoModel(j) ==
    /\ job_pc[j] = "idle"
    /\ ~yolo_model
    /\ job_pc' = [job_pc EXCEPT ![j] = "returned"]
    /\ job_result' = [job_result EXCEPT ![j] = <<>>]
    /\ UNCHANGED <<yolo_model, supabase_client, current_photo_id, job_local,
                   job_input, photos, cropped_rows, clock>>

\* lines 204-214: the upload and self.current_photo_id = save_photo_to_database(...)
\* photo: "row" (inserted, its id returned), "fake" (no client or the insert
\* raised: a fresh uuid), "none" (the insert returned no data: None)
PSI_SavePhoto(j) ==
    /\ job_pc[j] = "idle"
    /\ yolo_model
    /\ \E photo \in {"row", "fake", "none"} :
         /\ ~supabase_client => photo = "fake"
         /\ current_photo_id' = IF photo = "none" THEN 0 ELSE j
         /\ photos' = IF photo = "row"
                      THEN photos \cup {[id |-> j, processed |-> FALSE]}
                      ELSE photos
         /\ job_local' = [job_local EXCEPT ![j] =
                [timestamp |-> clock,
                 photo_id |-> IF photo = "none" THEN 0 ELSE j]]
    /\ job_pc' = [job_pc EXCEPT ![j] = "photo_saved"]
    /\ UNCHANGED <<yolo_model, supabase_client, job_result, job_input,
                   cropped_rows, clock>>

\* lines 220-222: the image file is gone
PSI_ImageMissing(j) ==
    /\ job_pc[j] = "photo_saved"
    /\ job_pc' = [job_pc EXCEPT ![j] = "returned"]
    /\ job_result' = [job_result EXCEPT ![j] = <<>>]
    /\ job_input' = [job_input EXCEPT ![j] = Observed(FALSE, FALSE, FALSE, FALSE, 0, {})]
    /\ UNCHANGED <<yolo_model, supabase_client, current_photo_id, job_local,
                   photos, cropped_rows, clock>>

\* line 231 raises: lines 358-360
PSI_DetectorRaises(j) ==
    /\ job_pc[j] = "photo_saved"
    /\ job_pc' = [job_pc EXCEPT ![j] = "returned"]
    /\ job_result' = [job_result EXCEPT ![j] = <<>>]
    /\ job_input' = [job_input EXCEPT ![j] = Observed(TRUE, FALSE, FALSE, FALSE, 0, {})]
    /\ UNCHANGED <<yolo_model, supabase_client, current_photo_id, job_local,
                   photos, cropped_rows, clock>>

\* no detection, and Image.open of line 262 raises: lines 358-360
PSI_FallbackRaises(j) ==
    /\ job_pc[j] = "photo_saved"
    /\ job_pc' = [job_pc EXCEPT ![j] = "returned"]
    /\ job_result' = [job_result EXCEPT ![j] = <<>>]
    /\ job_input' = [job_input EXCEPT ![j] = Observed(TRUE, TRUE, TRUE, FALSE, 0, {})]
    /\ UNCHANGED <<yolo_model, supabase_client, current_photo_id, job_local,
                   photos, cropped_rows, clock>>

\* lines 216-356: detection, consolidation, crops, rows, the "processed" flag
PSI_Process(j) ==
    /\ job_pc[j] = "photo_saved"
    /\ \E with_boxes \in BOOLEAN :
       \E filtered_detections \in PipeFilteredOutputs(with_boxes) :
         LET unique_objects ==
                 { filtered_detections[n][2].class_name :
                     n \in 1..Len(filtered_detections) }
             resellable_objects == filter_resellable_objects(unique_objects)
         IN  IF resellable_objects = {}
             THEN \* lines 280-282: return []
                  /\ job_result' = [job_result EXCEPT ![j] = <<>>]
                  /\ job_input' = [job_input EXCEPT ![j] =
                         Observed(TRUE, TRUE, ~with_boxes, ~with_boxes, 0, {})]
                  /\ UNCHANGED <<cropped_rows, photos>>
             ELSE /\ \E crop_ok \in [1..Len(filtered_detections) -> BOOLEAN],
                        row_saved \in BOOLEAN :
                       LET r == CropLoop(filtered_detections,
                                         Len(filtered_detections),
                                         resellable_objects,
                                         job_local[j].timestamp,
                                         current_photo_id, crop_ok,
                                         row_saved /\ supabase_client)
                       IN  /\ job_result' =
                                  [job_result EXCEPT ![j] = r.processed_objects]
                           /\ cropped_rows' = cropped_rows \cup r.rows
                           /\ job_input' = [job_input EXCEPT ![j] =
                                  Observed(TRUE, TRUE, ~with_boxes, ~with_boxes,
                                           r.crop_index - Len(r.processed_objects),
                                           unique_objects)]
                  /\ photos' =
                         IF supabase_client /\ current_photo_id # 0
                         THEN { IF p.id = current_photo_id
                                THEN [p EXCEPT !.processed = TRUE]
                                ELSE p : p \in photos }
                         ELSE photos
    /\ job_pc' = [job_pc EXCEPT ![j] = "returned"]
    /\ UNCHANGED <<yolo_model, supabase_client, current_photo_id, job_local, clock>>

----------------------------------------------------------------------------
\* The job API of pipeline_api.py: the upload routes, the background thread
\* process_image_async, the two clear routes and load_jobs at start-up.
\* save_jobs writes the whole of processing_status to jobs.json after every
\* change; the write is taken to succeed.

\* job ids are uuid4 values: every upload gets one never used before
JobIds == 1..MaxUploads

\* One entry of processing_status: its "status", whether "partial_results" is
\* attached, and what "results" holds: "none" (no such key), "empty" (no
\* objects found), "partial" (the phase 1 results), "intermediate" and "final"
\* (results with listings_ready_to_review).
Entry(status, partial_results, results) ==
    [status |-> status, partial_results |-> partial_results, results |-> results]

\* processing_status[job_id] = entry
SetJob(status_of, job_id, entry) ==
    [k \in DOMAIN status_of \cup {job_id} |->
        IF k = job_id THEN entry ELSE status_of[k]]

\* del processing_status[job_id] for every job_id in gone
DeleteJobs(status_of, gone) ==
    [k \in DOMAIN status_of \ gone |-> status_of[k]]

\* InterruptedJob putting an interrupted job back in the queue
InterruptedJob_Requeues(job) ==
    IF job.status \in {"processing", "recognition_complete"}
    THEN [job EXCEPT !.status = "queued"]
    ELSE job

\* load_jobs, lines 53-71, for one loaded job. The intermediate results of
\* phase 2 are the only results an interrupted job can hold, and their
\* listings_ready_to_review is never empty (lines 306-317).
InterruptedJob(job) ==
    IF job.status \in {"processing", "recognition_complete"}
    THEN IF job.results = "intermediate"
         THEN [job EXCEPT !.status = "completed"]
         ELSE IF job.partial_results
              THEN [job EXCEPT !.status = "completed", !.results = "partial"]
              ELSE [job EXCEPT !.status = "error"]
    ELSE job

\* load_jobs, lines 42-79
load_jobs(file) ==
    [k \in DOMAIN file |-> InterruptedJob(file[k])]

\* The upload route in its asynchronous mode (pipeline_api.py lines 399, 434-496;
\* pipeline_bp.py lines 66, 99-129, 140-170): the pipeline is initialised, the
\* image is saved, the job is queued and saved, the thread is started. Both
\* routes do the same. When initialize_pipeline fails the route answers 500 and
\* nothing changes.
ProcessImage ==
    /\ \E j \in JobIds :
         /\ thread_pc[j] = "unborn"
         /\ \A k \in JobIds : k < j => thread_pc[k] # "unborn"
         /\ temp_uploads' = temp_uploads \cup {j}
         /\ processing_status' =
                SetJob(processing_status, j, Entry("queued", FALSE, "none"))
         /\ thread_pc' = [thread_pc EXCEPT ![j] = "created"]
    /\ pipeline' = TRUE
    /\ jobs_file' = processing_status'
    /\ UNCHANGED thread_left

\* process_image_async, lines 133-156: status "processing"; without a pipeline
\* the job is an error and the thread returns.
AsyncBegin(j) ==
    /\ thread_pc[j] = "created"
    /\ IF pipeline
       THEN /\ processing_status' =
                   SetJob(processing_status, j, Entry("processing", FALSE, "none"))
            /\ thread_pc' = [thread_pc EXCEPT ![j] = "detect"]
       ELSE /\ processing_status' =
                   SetJob(processing_status, j, Entry("error", FALSE, "none"))
            /\ thread_pc' = [thread_pc EXCEPT ![j] = "ended"]
    /\ jobs_file' = processing_status'
    /\ UNCHANGED <<pipeline, thread_left, temp_uploads>>

\* lines 159-187: process_single_image returns n objects; with none the job is
\* completed with empty results and the thread returns.
AsyncDetect(j) ==
    /\ thread_pc[j] = "detect"
    /\ \E n \in 0..MaxObjects :
         IF n = 0
         THEN /\ processing_status' =
                     SetJob(processing_status, j, Entry("completed", FALSE, "empty"))
              /\ thread_pc' = [thread_pc EXCEPT ![j] = "ended"]
              /\ UNCHANGED thread_left
         ELSE /\ thread_pc' = [thread_pc EXCEPT ![j] = "recognise"]
              /\ thread_left' = [thread_left EXCEPT ![j] = n]
              /\ UNCHANGED processing_status
    /\ jobs_file' = processing_status'
    /\ UNCHANGED <<pipeline, temp_uploads>>

\* lines 190-223: recognition of every object, then status "recognition_complete"
\* with partial_results
AsyncRecognise(j) ==
    /\ thread_pc[j] = "recognise"
    /\ processing_status' =
           SetJob(processing_status, j, Entry("recognition_complete", TRUE, "none"))
    /\ thread_pc' = [thread_pc EXCEPT ![j] = "price"]
    /\ jobs_file' = processing_status'
    /\ UNCHANGED <<pipeline, thread_left, temp_uploads>>

\* AsyncRaises ending the thread without recording the failure
AsyncRaises_Unrecorded(j) ==
    /\ thread_pc[j] \in {"detect", "recognise"}
    /\ thread_pc' = [thread_pc EXCEPT ![j] = "ended"]
    /\ UNCHANGED <<pipeline, processing_status, jobs_file, thread_left,
                   temp_uploads>>

\* detection or recognition raises: the handler of lines 350-363
AsyncRaises(j) ==
    /\ thread_pc[j] \in {"detect", "recognise"}
    /\ processing_status' =
           SetJob(processing_status, j, Entry("error", FALSE, "none"))
    /\ thread_pc' = [thread_pc EXCEPT ![j] = "ended"]
    /\ jobs_file' = processing_status'
    /\ UNCHANGED <<pipeline, thread_left, temp_uploads>>

\* One turn of the loop of lines 232-317: the object is skipped (no product
\* name), or priced and the intermediate results saved, or pricing raises and
\* the handler of lines 333-341 completes the job with the phase 1 results.
AsyncPriceObject(j) ==
    /\ thread_pc[j] = "price"
    /\ thread_left[j] > 0
    /\ \E outcome \in {"skipped", "priced", "raised"} :
         /\ processing_status' =
                IF outcome = "skipped" THEN processing_status
                ELSE IF outcome = "priced"
                THEN SetJob(processing_status, j,
                            [processing_status[j] EXCEPT !.results = "intermediate"])
                ELSE SetJob(processing_status, j,
                            Entry("completed", FALSE, "partial"))
         /\ thread_pc' = IF outcome = "raised"
                         THEN [thread_pc EXCEPT ![j] = "cleanup"]
                         ELSE thread_pc
         /\ thread_left' = [thread_left EXCEPT ![j] =
                               IF outcome = "raised" THEN 0 ELSE @ - 1]
    /\ jobs_file' = processing_status'
    /\ UNCHANGED <<pipeline, temp_uploads>>

\* lines 319-332: the final results, status "completed"
AsyncFinish(j) ==
    /\ thread_pc[j] = "price"
    /\ thread_left[j] = 0
    /\ processing_status' =
           SetJob(processing_status, j, Entry("completed", FALSE, "final"))
    /\ thread_pc' = [thread_pc EXCEPT ![j] = "cleanup"]
    /\ jobs_file' = processing_status'
    /\ UNCHANGED <<pipeline, thread_left, temp_uploads>>

\* lines 343-348: the uploaded image is removed
AsyncCleanup(j) ==
    /\ thread_pc[j] = "cleanup"
    /\ temp_uploads' = temp_uploads \ {j}
    /\ thread_pc' = [thread_pc EXCEPT ![j] = "ended"]
    /\ UNCHANGED <<pipeline, processing_status, jobs_file, thread_left>>

\* whatever the thread of job j does next
AsyncStep(j) ==
    \/ AsyncBegin(j)
    \/ AsyncDetect(j)
    \/ AsyncRecognise(j)
    \/ AsyncRaises(j)
    \/ AsyncPriceObject(j)
    \/ AsyncFinish(j)
    \/ AsyncCleanup(j)

\* the stand-alone route, pipeline_api.py lines 561-588
clear_completed_jobs ==
    /\ processing_status' =
           DeleteJobs(processing_status,
                      { k \in DOMAIN processing_status :
                          processing_status[k].status \in {"completed", "error"} })
    /\ jobs_file' = processing_status'
    /\ UNCHANGED <<pipeline, thread_pc, thread_left, temp_uploads>>

\* the blueprint route, pipeline_bp.py lines 246-270
clear_jobs ==
    /\ processing_status' =
           DeleteJobs(processing_status,
                      { k \in DOMAIN processing_status :
                          processing_status[k].status \in {"completed", "failed"} })
    /\ jobs_file' = processing_status'
    /\ UNCHANGED <<pipeline, thread_pc, thread_left, temp_uploads>>

\* The server stops and starts again: the daemon threads are gone, the module
\* is imported anew (pipeline = None, line 38) and load_jobs runs (line 89),
\* saving what it changed.
Restart ==
    /\ thread_pc' = [j \in JobIds |->
                        IF thread_pc[j] \in {"unborn", "ended"}
                        THEN thread_pc[j] ELSE "killed"]
    /\ thread_left' = [j \in JobIds |-> 0]
    /\ pipeline' = FALSE
    /\ processing_status' = load_jobs(jobs_file)
    /\ jobs_file' = processing_status'
    /\ UNCHANGED temp_uploads

----------------------------------------------------------------------------
\* ObjectDetectionPipeline.run_complete_pipeline, lines 717-828.

\* object names process_single_image returns
RunNames == {"laptop", "watch"}

\* What process_single_image returned: per object its name and whether it has
\* a "cropped_id" (the row of table "cropped" was saved); one object per name.
RunObjects ==
    { objs \in UNION { [1..n -> RunNames \X BOOLEAN] : n \in 0..MaxObjects } :
        \A a \in 1..Len(objs), b \in 1..Len(objs) :
            objs[a][1] = objs[b][1] => a = b }

\* a Python list and a Python int, as values of "detected_objects"
PyList(items) == [type |-> "list", value |-> items]
PyInt(n) == [type |-> "int", value |-> n]

\* obj_result of lines 755-762, with what the later stages put in it
ObjResult(obj, recognised, priced, skip_reason) ==
    [object_name |-> obj[1], cropped_id |-> obj[2], recognised |-> recognised,
     priced |-> priced, listing_id |-> priced /\ obj[2],
     skip_reason |-> skip_reason]

\* lines 780-782: no market prices, continue
NoPrices(listings_created, obj) == listings_created

\* lines 723-742: process_single_image is called; with no object the initial
\* pipeline_results is returned as it is
RCP_Start ==
    /\ rcp_pc = "idle"
    /\ \E objs \in RunObjects :
         /\ rcp_objects' = objs
         /\ IF objs = <<>>
            THEN /\ rcp_pc' = "returned"
                 /\ rcp_results' = [detected_objects |-> PyList(<<>>),
                                    listings_created |-> <<>>]
            ELSE /\ rcp_pc' = "loop"
                 /\ rcp_results' = [detected_objects |-> PyInt(Len(objs)),
                                    listings_created |-> <<>>]
    /\ UNCHANGED rcp_i

\* One turn of the loop of lines 751-819: the object is not recognised (lines
\* 769-773), or has no market prices (780-782), or is priced and listed
\* (785-817), or a call raises and the handler of lines 826-828 returns the
\* error dict.
RCP_Object ==
    /\ rcp_pc = "loop"
    /\ rcp_i < Len(rcp_objects)
    /\ LET obj == rcp_objects[rcp_i + 1] IN
       \E outcome \in {"not_recognised", "no_prices", "listed", "raises"} :
         IF outcome = "raises"
         THEN /\ rcp_pc' = "returned"
              /\ rcp_results' = [error |-> "raised"]
              /\ UNCHANGED rcp_i
         ELSE /\ rcp_results' = [rcp_results EXCEPT !.listings_created =
                     IF outcome = "not_recognised"
                     THEN Append(@, ObjResult(obj, FALSE, FALSE,
                                              "not_recognized_as_product"))
                     ELSE IF outcome = "no_prices"
                     THEN NoPrices(@, obj)
                     ELSE Append(@, ObjResult(obj, TRUE, TRUE, "none"))]
              /\ rcp_i' = rcp_i + 1
              /\ UNCHANGED rcp_pc
    /\ UNCHANGED rcp_objects

\* lines 821-824: the summary, the report, return pipeline_results
RCP_Return ==
    /\ rcp_pc = "loop"
    /\ rcp_i = Len(rcp_objects)
    /\ rcp_pc' = "returned"
    /\ UNCHANGED <<rcp_objects, rcp_i, rcp_results>>

----------------------------------------------------------------------------
\* Initial states and specifications.

SelIdle ==
    /\ sel_in = <<>>
    /\ sel_ran = {}
    /\ sel_od = <<>>
    /\ sel_pipe = <<>>

ODInit ==
    /\ YOLO_MODEL \in BOOLEAN
    /\ pc = "idle"
    /\ image_paths = <<>>
    /\ idx = 0
    /\ global_seen_objects = {}
    /\ global_processed_objects = <<>>
    /\ final_report_entries = <<>>
    /\ cropped_files = {}
    /\ image_log = <<>>
    /\ earlier_kept = {}

ODIdle ==
    /\ YOLO_MODEL = TRUE
    /\ pc = "idle"
    /\ image_paths = <<>>
    /\ idx = 0
    /\ global_seen_objects = {}
    /\ global_processed_objects = <<>>
    /\ final_report_entries = <<>>
    /\ cropped_files = {}
    /\ image_log = <<>>
    /\ earlier_kept = {}

PipeIdle ==
    /\ yolo_model = TRUE
    /\ supabase_client = TRUE
    /\ current_photo_id = 0
    /\ job_pc = <<>>
    /\ job_local = <<>>
    /\ job_result = <<>>
    /\ job_input = <<>>
    /\ photos = {}
    /\ cropped_rows = {}
    /\ clock = 0

ConIdle ==
    /\ con_raw = <<>>
    /\ con_ran = {}
    /\ con_od = <<>>
    /\ con_pipe = <<>>

JobIdle ==
    /\ pipeline = FALSE
    /\ processing_status = <<>>
    /\ jobs_file = <<>>
    /\ thread_pc = <<>>
    /\ thread_left = <<>>
    /\ temp_uploads = {}

RunIdle ==
    /\ rcp_pc = "idle"
    /\ rcp_objects = <<>>
    /\ rcp_i = 0
    /\ rcp_results = <<>>

Init == SelIdle /\ ConIdle /\ ODInit /\ PipeIdle /\ JobIdle /\ RunIdle

Next ==
    \/ (CallNoModel /\ UNCHANGED <<sel_vars, con_vars, pipe_vars, job_vars, run_vars>>)
    \/ (CallNoImages /\ UNCHANGED <<sel_vars, con_vars, pipe_vars, job_vars, run_vars>>)
    \/ (CallStart /\ UNCHANGED <<sel_vars, con_vars, pipe_vars, job_vars, run_vars>>)
    \/ (ImageDetectorRaises /\ UNCHANGED <<sel_vars, con_vars, pipe_vars, job_vars, run_vars>>)
    \/ (ImageNoDetections /\ UNCHANGED <<sel_vars, con_vars, pipe_vars, job_vars, run_vars>>)
    \/ (ImageReplyNotStrings /\ UNCHANGED <<sel_vars, con_vars, pipe_vars, job_vars, run_vars>>)
    \/ (ImageNothingResellable /\ UNCHANGED <<sel_vars, con_vars, pipe_vars, job_vars, run_vars>>)
    \/ (ImageDedup /\ UNCHANGED <<sel_vars, con_vars, pipe_vars, job_vars, run_vars>>)
    \/ (GenerateReport /\ UNCHANGED <<sel_vars, con_vars, pipe_vars, job_vars, run_vars>>)

Spec == Init /\ [][Next]_vars

PipeInit ==
    /\ yolo_model \in BOOLEAN
    /\ supabase_client \in BOOLEAN
    /\ current_photo_id = 0
    /\ job_pc = [j \in Jobs |-> "idle"]
    /\ job_local = [j \in Jobs |-> [timestamp |-> 0, photo_id |-> 0]]
    /\ job_result = [j \in Jobs |-> <<>>]
    /\ job_input = [j \in Jobs |-> Observed(FALSE, FALSE, FALSE, FALSE, 0, {})]
    /\ photos = {}
    /\ cropped_rows = {}
    /\ clock = 0

PipelineInit == SelIdle /\ ConIdle /\ ODIdle /\ PipeInit /\ JobIdle /\ RunIdle

PipelineNext ==
    \/ (Tick /\ UNCHANGED <<sel_vars, con_vars, od_vars, job_vars, run_vars>>)
    \/ \E j \in Jobs :
         \/ (PSI_NoModel(j) /\ UNCHANGED <<sel_vars, con_vars, od_vars, job_vars, run_vars>>)
         \/ (PSI_SavePhoto(j) /\ UNCHANGED <<sel_vars, con_vars, od_vars, job_vars, run_vars>>)
         \/ (PSI_ImageMissing(j) /\ UNCHANGED <<sel_vars, con_vars, od_vars, job_vars, run_vars>>)
         \/ (PSI_DetectorRaises(j) /\ UNCHANGED <<sel_vars, con_vars, od_vars, job_vars, run_vars>>)
         \/ (PSI_FallbackRaises(j) /\ UNCHANGED <<sel_vars, con_vars, od_vars, job_vars, run_vars>>)
         \/ (PSI_Process(j) /\ UNCHANGED <<sel_vars, con_vars, od_vars, job_vars, run_vars>>)

PipeSpec == PipelineInit /\ [][PipelineNext]_vars

\* Two calls of process_single_image on the one pipeline instance: the API keeps
\* a single global pipeline (pipeline_api.py line 26) and runs every upload in a
\* thread of its own (lines 487-496), so two calls can overlap or follow each
\* other.
TwoJobs == {1, 2}

SharedPipeInit ==
    /\ yolo_model \in BOOLEAN
    /\ supabase_client \in BOOLEAN
    /\ current_photo_id = 0
    /\ job_pc = [j \in TwoJobs |-> "idle"]
    /\ job_local = [j \in TwoJobs |-> [timestamp |-> 0, photo_id |-> 0]]
    /\ job_result = [j \in TwoJobs |-> <<>>]
    /\ job_input = [j \in TwoJobs |-> Observed(FALSE, FALSE, FALSE, FALSE, 0, {})]
    /\ photos = {}
    /\ cropped_rows = {}
    /\ clock = 0

SharedInit == SelIdle /\ ConIdle /\ ODIdle /\ SharedPipeInit /\ JobIdle /\ RunIdle

SharedNext ==
    \/ (Tick /\ UNCHANGED <<sel_vars, con_vars, od_vars, job_vars, run_vars>>)
    \/ \E j \in TwoJobs :
         \/ (PSI_NoModel(j) /\ UNCHANGED <<sel_vars, con_vars, od_vars, job_vars, run_vars>>)
         \/ (PSI_SavePhoto(j) /\ UNCHANGED <<sel_vars, con_vars, od_vars, job_vars, run_vars>>)
         \/ (PSI_ImageMissing(j) /\ UNCHANGED <<sel_vars, con_vars, od_vars, job_vars, run_vars>>)
         \/ (PSI_DetectorRaises(j) /\ UNCHANGED <<sel_vars, con_vars, od_vars, job_vars, run_vars>>)
         \/ (PSI_FallbackRaises(j) /\ UNCHANGED <<sel_vars, con_vars, od_vars, job_vars, run_vars>>)
         \/ (PSI_Process(j) /\ UNCHANGED <<sel_vars, con_vars, od_vars, job_vars, run_vars>>)

SharedSpec == SharedInit /\ [][SharedNext]_vars

SelectInit == SelInit /\ ConIdle /\ ODIdle /\ PipeIdle /\ JobIdle /\ RunIdle

SelectNext ==
    \/ (ApplySelectOD /\ UNCHANGED <<con_vars, od_vars, pipe_vars, job_vars, run_vars>>)
    \/ (ApplySelectPipeline /\ UNCHANGED <<con_vars, od_vars, pipe_vars, job_vars, run_vars>>)

SelectSpec == SelectInit /\ [][SelectNext]_vars

ConsolidateInit == SelIdle /\ ConInit /\ ODIdle /\ PipeIdle /\ JobIdle /\ RunIdle

ConsolidateNext ==
    \/ (ConsolidateOD /\ UNCHANGED <<sel_vars, od_vars, pipe_vars, job_vars, run_vars>>)
    \/ (ConsolidatePipeline /\ UNCHANGED <<sel_vars, od_vars, pipe_vars, job_vars, run_vars>>)

ConsolidateSpec == ConsolidateInit /\ [][ConsolidateNext]_vars

\* the server has started for the first time: no jobs.json, no pipeline
JobInit ==
    /\ pipeline = FALSE
    /\ processing_status = <<>>
    /\ jobs_file = <<>>
    /\ thread_pc = [j \in JobIds |-> "unborn"]
    /\ thread_left = [j \in JobIds |-> 0]
    /\ temp_uploads = {}

JobsInit == SelIdle /\ ConIdle /\ ODIdle /\ PipeIdle /\ JobInit /\ RunIdle

\* the server while it keeps running
JobsRunning ==
    \/ (ProcessImage /\ UNCHANGED <<sel_vars, con_vars, od_vars, pipe_vars, run_vars>>)
    \/ (clear_completed_jobs /\ UNCHANGED <<sel_vars, con_vars, od_vars, pipe_vars, run_vars>>)
    \/ (clear_jobs /\ UNCHANGED <<sel_vars, con_vars, od_vars, pipe_vars, run_vars>>)
    \/ \E j \in JobIds :
         \/ (AsyncBegin(j) /\ UNCHANGED <<sel_vars, con_vars, od_vars, pipe_vars, run_vars>>)
         \/ (AsyncDetect(j) /\ UNCHANGED <<sel_vars, con_vars, od_vars, pipe_vars, run_vars>>)
         \/ (AsyncRecognise(j) /\ UNCHANGED <<sel_vars, con_vars, od_vars, pipe_vars, run_vars>>)
         \/ (AsyncRaises(j) /\ UNCHANGED <<sel_vars, con_vars, od_vars, pipe_vars, run_vars>>)
         \/ (AsyncPriceObject(j) /\ UNCHANGED <<sel_vars, con_vars, od_vars, pipe_vars, run_vars>>)
         \/ (AsyncFinish(j) /\ UNCHANGED <<sel_vars, con_vars, od_vars, pipe_vars, run_vars>>)
         \/ (AsyncCleanup(j) /\ UNCHANGED <<sel_vars, con_vars, od_vars, pipe_vars, run_vars>>)

JobsNext ==
    \/ JobsRunning
    \/ (Restart /\ UNCHANGED <<sel_vars, con_vars, od_vars, pipe_vars, run_vars>>)

JobSpec == JobsInit /\ [][JobsNext]_vars

RunInit == SelIdle /\ ConIdle /\ ODIdle /\ PipeIdle /\ JobIdle /\ RunIdle

RunNext ==
    \/ (RCP_Start /\ UNCHANGED <<sel_vars, con_vars, od_vars, pipe_vars, job_vars>>)
    \/ (RCP_Object /\ UNCHANGED <<sel_vars, con_vars, od_vars, pipe_vars, job_vars>>)
    \/ (RCP_Return /\ UNCHANGED <<sel_vars, con_vars, od_vars, pipe_vars, job_vars>>)

RunSpec == RunInit /\ [][RunNext]_vars

\* The server keeps running, and every started thread is scheduled again and
\* again until it returns: threading.Thread(...).start() of lines 487-496.
JobLiveSpec ==
    /\ JobsInit
    /\ [][JobsRunning]_vars
    /\ \A j \in JobIds :
           WF_vars(AsyncStep(j) /\ UNCHANGED <<sel_vars, con_vars, od_vars, pipe_vars, run_vars>>)

----------------------------------------------------------------------------
\* Properties of select_largest_instances (SelectSpec).

\* the class names of a mapping coords -> class_name
LabelsOf(m) == { m[i][2] : i \in 1..Len(m) }

\* the pipeline's result as coords -> class_name
PipeView(m) == [i \in 1..Len(m) |-> <<m[i][1], m[i][2].class_name>>]

\* out keeps, for every class of inp, a box at least as large as each of its boxes
KeepsLargest(inp, out) ==
    \A i \in 1..Len(inp) :
        /\ \E j \in 1..Len(out) : out[j][2] = inp[i][2]
        /\ \A j \in 1..Len(out) :
              out[j][2] = inp[i][2] =>
                 calculate_bbox_area(out[j][1]) >= calculate_bbox_area(inp[i][1])

\* C1: largest-wins. For every input mapping and every class label c in it, the
\* box kept for c by select_largest_instances (OD.py and the pipeline method)
\* has an area greater than or equal to that of every input box labelled c.
C1_LargestWins ==
    /\ "od" \in sel_ran => KeepsLargest(ODView(sel_in), sel_od)
    /\ "pipeline" \in sel_ran => KeepsLargest(ODView(sel_in), PipeView(sel_pipe))

\* C1 witness: both functions ran on a mapping where a later box of a class is
\* larger than an earlier one of the same class, and the later one was kept.
C1_Witness ==
    /\ sel_ran = {"od", "pipeline"}
    /\ \E i, k \in 1..Len(sel_in) :
         /\ i < k
         /\ sel_in[i][2].class_name = sel_in[k][2].class_name
         /\ calculate_bbox_area(sel_in[k][1]) > calculate_bbox_area(sel_in[i][1])
         /\ DictHas(sel_od, sel_in[k][1])
         /\ DictHas(sel_pipe, sel_in[k][1])

\* out has exactly one entry per class of inp
OnePerLabel(inp, out) ==
    /\ Len(out) = Cardinality(LabelsOf(inp))
    /\ Len(out) <= Len(inp)
    /\ \A c \in LabelsOf(inp) :
          Cardinality({ j \in 1..Len(out) : out[j][2] = c }) = 1
    /\ LabelsOf(out) = LabelsOf(inp)
    /\ inp = <<>> => out = <<>>

\* C4: cardinality. select_largest_instances returns exactly one entry per
\* distinct class label of its input (as many entries as distinct labels, never
\* more than the input has), and an empty mapping for an empty input.
C4_Cardinality ==
    /\ "od" \in sel_ran => OnePerLabel(ODView(sel_in), sel_od)
    /\ "pipeline" \in sel_ran => OnePerLabel(ODView(sel_in), PipeView(sel_pipe))

\* C4 witness: three boxes of two classes were reduced to two entries.
C4_Witness ==
    /\ sel_ran = {"od", "pipeline"}
    /\ Len(sel_in) = 3
    /\ Cardinality(LabelsOf(ODView(sel_in))) = 2
    /\ Len(sel_od) = 2
    /\ Len(sel_pipe) = 2

\* the mapping with other confidences on the same boxes and labels
WithConfidences(m, conf) ==
    [i \in 1..Len(m) |->
        <<m[i][1], [class_name |-> m[i][2].class_name, confidence |-> conf[i]]>>]

\* C12: confidence does not influence the pipeline's select_largest_instances.
\* Whatever confidences the same boxes and labels carry, the same box is kept
\* for every label; a larger box wins over a smaller one of its label whatever
\* their confidences; every kept entry carries the confidence its box had in
\* the input.
C12_ConfidenceIgnored ==
    "pipeline" \in sel_ran =>
        /\ \A conf \in [1..Len(sel_in) -> Confidences] :
              PipeView(Pipe_select_largest_instances(WithConfidences(sel_in, conf)))
                 = PipeView(sel_pipe)
        /\ \A i, k \in 1..Len(sel_in) :
              (/\ sel_in[i][2].class_name = sel_in[k][2].class_name
               /\ calculate_bbox_area(sel_in[i][1]) > calculate_bbox_area(sel_in[k][1]))
              => ~DictHas(sel_pipe, sel_in[k][1])
        /\ \A j \in 1..Len(sel_pipe) :
              \E i \in 1..Len(sel_in) : sel_in[i] = sel_pipe[j]

\* C12 witness: the larger of two boxes of a class has the lower confidence and
\* was kept, with that lower confidence.
C12_Witness ==
    /\ "pipeline" \in sel_ran
    /\ \E i, k \in 1..Len(sel_in) :
         /\ sel_in[i][2].class_name = sel_in[k][2].class_name
         /\ calculate_bbox_area(sel_in[i][1]) > calculate_bbox_area(sel_in[k][1])
         /\ sel_in[i][2].confidence < sel_in[k][2].confidence
         /\ DictHas(sel_pipe, sel_in[i][1])
         /\ DictGet(sel_pipe, sel_in[i][1]).confidence = sel_in[i][2].confidence

\* the first entry of inp, in iteration order, among those of class c whose
\* area is the largest of the class
FirstOfLargest(inp, c) ==
    LET Largest == { i \in 1..Len(inp) :
                       /\ inp[i][2] = c
                       /\ \A k \in 1..Len(inp) :
                             inp[k][2] = c =>
                                calculate_bbox_area(inp[k][1])
                                   <= calculate_bbox_area(inp[i][1]) }
    IN  CHOOSE i \in Largest : \A k \in Largest : i <= k

KeepsFirstOfLargest(inp, out) ==
    \A j \in 1..Len(out) : out[j][1] = inp[FirstOfLargest(inp, out[j][2])][1]

\* C15: tie-break. When several detections of a label share the largest area,
\* select_largest_instances (OD.py and the pipeline method) keeps the one met
\* first in the input's iteration order.
C15_TieBreakFirst ==
    /\ "od" \in sel_ran => KeepsFirstOfLargest(ODView(sel_in), sel_od)
    /\ "pipeline" \in sel_ran =>
          KeepsFirstOfLargest(ODView(sel_in), PipeView(sel_pipe))

\* C15 witness: two boxes of a class share the largest area of the class, and
\* both functions kept the earlier one and not the later one.
C15_Witness ==
    /\ sel_ran = {"od", "pipeline"}
    /\ \E i, k \in 1..Len(sel_in) :
         /\ i < k
         /\ sel_in[i][2].class_name = sel_in[k][2].class_name
         /\ calculate_bbox_area(sel_in[i][1]) = calculate_bbox_area(sel_in[k][1])
         /\ FirstOfLargest(ODView(sel_in), sel_in[i][2].class_name) = i
         /\ DictHas(sel_od, sel_in[i][1]) /\ ~DictHas(sel_od, sel_in[k][1])
         /\ DictHas(sel_pipe, sel_in[i][1]) /\ ~DictHas(sel_pipe, sel_in[k][1])

\* a box whose area computes to zero or less
Degenerate(coords) == (coords[3] - coords[1]) * (coords[4] - coords[2]) <= 0

\* out has an entry for every class of inp, each entry is an entry of inp, and a
\* degenerate box is in out only if no box of its class is larger
HandlesDegenerate(inp, out) ==
    /\ LabelsOf(out) = LabelsOf(inp)
    /\ \A j \in 1..Len(out) :
          /\ \E i \in 1..Len(inp) : inp[i] = out[j]
          /\ Degenerate(out[j][1]) =>
                \A i \in 1..Len(inp) :
                    inp[i][2] = out[j][2] =>
                       calculate_bbox_area(inp[i][1])
                          <= calculate_bbox_area(out[j][1])

\* C18: degenerate boxes. On a mapping holding boxes of zero or negative area,
\* select_largest_instances (OD.py and the pipeline method) returns an entry
\* for every class, and a degenerate box is kept for its class only if no
\* detection of that class has a strictly greater area.
C18_DegenerateBoxes ==
    /\ "od" \in sel_ran => HandlesDegenerate(ODView(sel_in), sel_od)
    /\ "pipeline" \in sel_ran =>
          HandlesDegenerate(ODView(sel_in), PipeView(sel_pipe))

\* C18 witness: a class had only degenerate boxes, of areas -1 and 0, and both
\* functions kept the one of area 0, while a positive box of another class was
\* kept as well.
C18_Witness ==
    /\ sel_ran = {"od", "pipeline"}
    /\ \E i, k, p \in 1..Len(sel_in) :
         /\ sel_in[i][2].class_name = sel_in[k][2].class_name
         /\ sel_in[p][2].class_name # sel_in[i][2].class_name
         /\ calculate_bbox_area(sel_in[i][1]) = -1
         /\ calculate_bbox_area(sel_in[k][1]) = 0
         /\ calculate_bbox_area(sel_in[p][1]) > 0
         /\ DictHas(sel_od, sel_in[k][1]) /\ DictHas(sel_od, sel_in[p][1])
         /\ DictHas(sel_pipe, sel_in[k][1]) /\ DictHas(sel_pipe, sel_in[p][1])

----------------------------------------------------------------------------
\* Properties of the consolidation of one detector output (ConsolidateSpec).

\* out (coords -> class_name) has, for entry i of the raw output, an entry of
\* its class with a box at least as large
HasEntryFor(out, class_name, coords) ==
    \E j \in 1..Len(out) :
        /\ out[j][2] = class_name
        /\ calculate_bbox_area(out[j][1]) >= calculate_bbox_area(coords)

\* C16 (as claimed): every class label of the detector's raw output for an
\* image has an entry in the image's consolidated detections, with the largest
\* box among the raw detections of that label, also when two raw detections
\* have exactly the same box coordinates.
C16_EveryRawLabelConsolidated ==
    /\ "od" \in con_ran =>
          \A i \in 1..Len(con_raw) :
              HasEntryFor(con_od, con_raw[i][2], con_raw[i][1])
    /\ "pipeline" \in con_ran =>
          \A i \in 1..Len(con_raw) :
              HasEntryFor(PipeView(con_pipe), MapClassName(con_raw[i][2]),
                          con_raw[i][1])

----------------------------------------------------------------------------
\* Properties of analyze_for_resellable_objects (Spec).

Kept == KeptItems(global_processed_objects)

\* position of an image in processing order
ImageIndex(filename) ==
    CHOOSE i \in 1..Len(image_paths) : image_paths[i] = filename

\* the images processed so far in which class c was eligible
EligibleIn(c) ==
    { i \in 1..Len(image_log) : \E e \in image_log[i].eligible : e[1] = c }

Min(S) == CHOOSE x \in S : \A y \in S : x <= y

\* C2: global uniqueness. No two kept items of a batch (objects recorded as new
\* across all its images) share a class label.
C2_GlobalUniqueness ==
    \A a, b \in 1..Len(Kept) : Kept[a].name = Kept[b].name => a = b

\* C2 witness: two items were kept, from two images, and the second image also
\* showed the first item's class as eligible.
C2_Witness ==
    /\ Len(Kept) = 2
    /\ Kept[1].filename # Kept[2].filename
    /\ Len(image_log) = 2
    /\ \E e \in image_log[2].eligible : e[1] = Kept[1].name

\* C3: first-seen-wins. When a class label is eligible (in the consolidated
\* detections and accepted by the classifier) in an image and again in a later
\* one, a kept item for that label references the first such image and that
\* image's box; later images contribute nothing for the label.
C3_FirstSeenWins ==
    \A k \in 1..Len(Kept) :
        LET c == Kept[k].name IN
        /\ EligibleIn(c) # {}
        /\ Kept[k].filename = image_log[Min(EligibleIn(c))].filename
        /\ <<c, Kept[k].coords>> \in image_log[Min(EligibleIn(c))].eligible

\* C3 witness: a class was eligible in both images with different boxes, and a
\* kept item exists for it.
C3_Witness ==
    /\ Len(image_log) = 2
    /\ \E k \in 1..Len(Kept) :
         \E e1 \in image_log[1].eligible, e2 \in image_log[2].eligible :
            /\ e1[1] = Kept[k].name
            /\ e2[1] = Kept[k].name
            /\ e1[2] # e2[2]

\* C5 (as claimed): after each image, the claimed set equals the class labels
\* (in the lower case the set holds them in) of the kept items emitted so far.
C5_ClaimedEqualsKept ==
    pc \in {"loop", "done"} =>
        global_seen_objects = { Lower(Kept[k].name) : k \in 1..Len(Kept) }

\* C6: order preservation. In the kept items of a batch, and in the report
\* entries built from them, every item of image i precedes every item of a
\* later image.
C6_OrderPreservation ==
    /\ \A a, b \in 1..Len(Kept) :
          a < b => ImageIndex(Kept[a].filename) <= ImageIndex(Kept[b].filename)
    /\ \A a, b \in 1..Len(global_processed_objects) :
          a < b => ImageIndex(global_processed_objects[a].filename)
                     < ImageIndex(global_processed_objects[b].filename)
    /\ \A a, b \in 1..Len(final_report_entries) :
          (/\ a < b
           /\ final_report_entries[a].kind = "report"
           /\ final_report_entries[b].kind = "report")
          => ImageIndex(final_report_entries[a].filename)
               < ImageIndex(final_report_entries[b].filename)

\* C6 witness: the call returned a report with one entry for each of two images.
C6_Witness ==
    /\ pc = "done"
    /\ Len(global_processed_objects) = 2
    /\ \E a, b \in 1..Len(final_report_entries) :
         /\ a < b
         /\ final_report_entries[a].kind = "report"
         /\ final_report_entries[b].kind = "report"

\* C7: monotonic claim growth. While a batch is processed the claimed set never
\* loses a label: after each image it is a superset of what it was before, also
\* when the image fails or has no detections.
C7_MonotonicClaim ==
    [][pc = "loop" =>
          /\ global_seen_objects \subseteq global_seen_objects'
          /\ Cardinality(global_seen_objects') >= Cardinality(global_seen_objects)]_vars

\* C7 witness: a label was claimed by the first image, the second image failed
\* or had no detections, and the label is still claimed.
C7_Witness ==
    /\ Len(image_log) = 2
    /\ image_log[1].eligible # {}
    /\ image_log[2].failed \/ image_log[2].no_detections
    /\ global_seen_objects # {}

\* C8: an image for which the detector returns zero detections adds no kept
\* item and leaves the claimed set, the report and the crops as they were, so
\* later images are processed from the same state as if it were absent.
C8_ZeroDetectionsNoEffect ==
    [][(/\ pc = "loop"
        /\ Len(image_log') = Len(image_log) + 1
        /\ image_log'[Len(image_log')].no_detections)
       => /\ global_seen_objects' = global_seen_objects
          /\ global_processed_objects' = global_processed_objects
          /\ final_report_entries' = final_report_entries
          /\ cropped_files' = cropped_files
          /\ pc' = "loop"]_vars

\* C8 witness: the first image had no detections and the second image's object
\* was kept.
C8_Witness ==
    /\ Len(image_log) = 2
    /\ image_log[1].no_detections
    /\ Len(Kept) >= 1

\* C10: an empty image list yields an empty output, without raising and with
\* no label claimed, no object recorded and no crop written.
C10_EmptyListEmptyOutput ==
    (pc # "idle" /\ image_paths = <<>>) =>
        /\ pc = "done"
        /\ final_report_entries = <<>>
        /\ global_seen_objects = {}
        /\ global_processed_objects = <<>>
        /\ cropped_files = {}

\* C10 witness: the model is loaded and the call returned for an empty folder.
C10_Witness ==
    /\ YOLO_MODEL
    /\ pc = "done"
    /\ image_paths = <<>>

\* the class names, in lower case, eligible in the images before image i
EligibleBefore(i) ==
    { Lower(f[1]) : f \in UNION { image_log[h].eligible : h \in 1..(i - 1) } }

\* C13: the claimed set is scoped to one batch. A call starts with an empty
\* claimed set and nothing kept; while it runs, the claimed set holds exactly
\* the labels eligible in the images of this call; and a label eligible in an
\* image, and in no earlier image of this call, is kept from that image when
\* the image's crops are saved, whatever earlier calls kept.
C13_ClaimedSetPerBatch ==
    /\ (pc = "loop" /\ idx = 0) =>
          (global_seen_objects = {} /\ global_processed_objects = <<>>)
    /\ pc \in {"loop", "done"} =>
          global_seen_objects =
             { Lower(e[1]) : e \in
                 UNION { image_log[i].eligible : i \in 1..Len(image_log) } }
    /\ LET kept == Kept IN
       \A i \in 1..Len(image_log) :
          image_log[i].crop_failures = 0 =>
             \A e \in image_log[i].eligible :
                 Lower(e[1]) \notin EligibleBefore(i) =>
                    \E k \in 1..Len(kept) :
                        /\ kept[k].filename = image_log[i].filename
                        /\ Lower(kept[k].name) = Lower(e[1])

\* C13 witness: the call before this one kept a laptop, and this call has kept
\* a laptop again.
C13_Witness ==
    /\ pc \in {"loop", "done"}
    /\ "laptop" \in earlier_kept
    /\ \E k \in 1..Len(Kept) : Lower(Kept[k].name) = "laptop"

\* C14: every kept item of a batch has exactly one saved crop file. The crop
\* file of every kept item was written in this call, no two kept items name the
\* same crop file, and the call wrote no other crop file.
C14_OneCropPerKeptItem ==
    LET kept == Kept IN
    /\ \A a \in 1..Len(kept) : kept[a].crop_file \in cropped_files
    /\ \A a, b \in 1..Len(kept) : kept[a].crop_file = kept[b].crop_file => a = b
    /\ Cardinality(cropped_files) = Len(kept)

\* C14 witness: the call returned with two kept items, each the first crop of
\* its image, and the two crop files written.
C14_Witness ==
    /\ pc = "done"
    /\ Len(Kept) = 2
    /\ Kept[1].filename # Kept[2].filename
    /\ Kept[1].crop_file[2] = Kept[2].crop_file[2]
    /\ cropped_files = {Kept[1].crop_file, Kept[2].crop_file}

\* C17: a class label the classifier does not return for an image is neither
\* kept from that image nor added to the claimed set by it: the labels an
\* image adds to the claimed set, and the labels of the items kept from it,
\* are among those the classifier accepted for it.
C17_RejectedNotClaimed ==
    [][(pc = "loop" /\ Len(image_log') = Len(image_log) + 1) =>
          LET entry == image_log'[Len(image_log')]
              accepted == { Lower(e[1]) : e \in entry.eligible }
              kept == KeptItems(global_processed_objects')
          IN  /\ (global_seen_objects' \ global_seen_objects) \subseteq accepted
              /\ \A r \in entry.rejected :
                    /\ r \notin accepted
                    /\ r \in global_seen_objects' => r \in global_seen_objects
              /\ \A k \in 1..Len(kept) :
                    kept[k].filename = entry.filename =>
                       /\ Lower(kept[k].name) \in accepted
                       /\ Lower(kept[k].name) \notin entry.rejected]_vars

\* C17 witness: the classifier did not return the first image's laptop, which
\* was not claimed there; it accepted the laptop of the second image, which
\* was claimed and kept from the second image.
C17_Witness ==
    /\ Len(image_log) = 2
    /\ "laptop" \in image_log[1].rejected
    /\ "laptop" \in global_seen_objects
    /\ \E k \in 1..Len(Kept) :
         /\ Kept[k].filename = image_log[2].filename
         /\ Lower(Kept[k].name) = "laptop"

\* C19 (as claimed): when the detector or the classifier raises for an image,
\* the batch goes on with the next image, the claimed set stays as it was, and
\* the image is reported once as failed.
C19_FailureReportedAsFailed ==
    [][(/\ pc = "loop"
        /\ Len(image_log') = Len(image_log) + 1
        /\ image_log'[Len(image_log')].raised # "none")
       => /\ pc' = "loop"
          /\ idx' = idx + 1
          /\ image_paths' = image_paths
          /\ global_seen_objects' = global_seen_objects
          /\ final_report_entries' =
                Append(final_report_entries,
                       FailedEntry(image_log'[Len(image_log')].filename))]_vars

\* C19 (amended): a failure on one image does not abort the batch. The loop
\* goes on with the next image in order and reaches the report only after
\* every image, and the claimed set and the kept items stay as they were. The
\* image is reported once as failed when the detector raises or the reply
\* holds items that are no strings; when the call to the classifier raises,
\* the exception is caught where it is made, the reply reads as an empty list
\* and the image is passed over with no failure entry.
C19_FailureDoesNotAbort ==
    [][/\ (/\ pc = "loop"
           /\ Len(image_log') = Len(image_log) + 1
           /\ image_log'[Len(image_log')].raised # "none")
          => LET entry == image_log'[Len(image_log')] IN
             /\ pc' = "loop"
             /\ idx' = idx + 1
             /\ image_paths' = image_paths
             /\ entry.filename = image_paths[idx + 1]
             /\ global_seen_objects' = global_seen_objects
             /\ global_processed_objects' = global_processed_objects
             /\ IF entry.raised = "classifier"
                THEN final_report_entries' = final_report_entries
                ELSE final_report_entries' =
                        Append(final_report_entries, FailedEntry(entry.filename))
             /\ Cardinality({ n \in 1..Len(final_report_entries') :
                                final_report_entries'[n] = FailedEntry(entry.filename) })
                   = IF entry.raised = "classifier" THEN 0 ELSE 1
       /\ (pc = "loop" /\ pc' = "done") =>
             /\ Len(image_log) = Len(image_paths)
             /\ \A i \in 1..Len(image_log) : image_log[i].filename = image_paths[i]]_vars

\* C19 witness: the detector raised on the first image, which is the one
\* failure entry of the report; the second image was processed and an object
\* of it was kept.
C19_Witness ==
    /\ pc = "done"
    /\ Len(image_log) = 2
    /\ image_log[1].raised = "detector"
    /\ final_report_entries[1] = FailedEntry(image_log[1].filename)
    /\ \E k \in 1..Len(Kept) : Kept[k].filename = image_log[2].filename

\* C20 (as claimed): the claimed-set test compares labels exactly, so two
\* labels that differ only in letter case are distinct classes for the
\* deduplication: a label eligible in an image whose crops are saved, and
\* eligible under that exact name in no earlier image, is kept from it.
C20_CaseDistinctClasses ==
    \A i \in 1..Len(image_log) :
        image_log[i].crop_failures = 0 =>
           \A e \in image_log[i].eligible :
               (\A h \in 1..(i - 1) : \A f \in image_log[h].eligible : f[1] # e[1])
               => \E k \in 1..Len(Kept) :
                     /\ Kept[k].filename = image_log[i].filename
                     /\ Kept[k].name = e[1]

\* C20 (amended): consolidation compares labels exactly, so an image's
\* consolidated detections can hold two labels that differ only in letter
\* case, each with one box; the claimed set holds labels in lower case and is
\* tested with the lower-cased label, so such labels are one class for the
\* deduplication: no two kept items of a batch have labels that are equal up
\* to letter case.
C20_CaseFoldedClaims ==
    /\ \A s \in global_seen_objects : Lower(s) = s
    /\ LET kept == Kept IN
       \A a, b \in 1..Len(kept) :
          Lower(kept[a].name) = Lower(kept[b].name) => a = b
    /\ \A i \in 1..Len(image_log) :
          \A e, f \in image_log[i].eligible : e[1] = f[1] => e = f

\* C20 witness: the first image's consolidated detections held "Laptop" and
\* "laptop", both accepted and the crop saved, and one of them was kept; the
\* second image showed one of the two again and nothing was kept from it.
C20_Witness ==
    /\ Len(image_log) = 2
    /\ image_log[1].crop_failures = 0
    /\ image_log[2].crop_failures = 0
    /\ { e[1] : e \in image_log[1].eligible } = {"Laptop", "laptop"}
    /\ \E e \in image_log[2].eligible : Lower(e[1]) = "laptop"
    /\ Len(Kept) = 1
    /\ Kept[1].filename = image_log[1].filename

\* every crop of every image processed so far was saved
AllCropsSaved ==
    \A i \in 1..Len(image_log) : image_log[i].crop_failures = 0

\* the labels eligible in the images processed so far
EligibleLabels ==
    UNION { { e[1] : e \in image_log[i].eligible } : i \in 1..Len(image_log) }

\* C30 (as claimed): with all crops saved, the set of labels kept for a batch
\* is the union of the eligible labels of its images, so it is the same for
\* every order of the images.
C30_KeptIsUnion ==
    AllCropsSaved =>
        LET kept == Kept IN
        { kept[k].name : k \in 1..Len(kept) } = EligibleLabels

\* C30 (amended): with all crops saved, the set of kept labels taken in lower
\* case is the union of the lower-cased eligible labels of the images, so it
\* is the same for every order of the images; every kept label is an eligible
\* one, and of labels that differ only in letter case the one met first is
\* kept, which, like the source image and the box, depends on the order.
C30_KeptIsUnionCaseFolded ==
    AllCropsSaved =>
        LET kept == Kept IN
        /\ { Lower(kept[k].name) : k \in 1..Len(kept) }
               = { Lower(c) : c \in EligibleLabels }
        /\ \A k \in 1..Len(kept) : kept[k].name \in EligibleLabels

\* C30 witness: two images, every crop saved; the second shows a label of the
\* first again together with a new one, and one item is kept from each image.
C30_Witness ==
    /\ Len(image_log) = 2
    /\ AllCropsSaved
    /\ \E e \in image_log[1].eligible, f \in image_log[2].eligible : e[1] = f[1]
    /\ Len(Kept) = 2
    /\ Kept[1].filename = image_log[1].filename
    /\ Kept[2].filename = image_log[2].filename

----------------------------------------------------------------------------
\* Properties of process_single_image (PipeSpec).

\* the object the fallback of lines 257-269 produces once cropped
WholeImageItem(obj) ==
    /\ obj.object_name = "item"
    /\ obj.confidence = 10
    /\ obj.coordinates = <<0, 0, ImageSize[1], ImageSize[2]>>

\* C9 (as claimed): when the detector returns zero detections for the image,
\* the list process_single_image returns is empty.
C9_ZeroDetectionsEmptyResult ==
    \A j \in Jobs :
        (job_pc[j] = "returned" /\ job_input[j].no_detections)
            => job_result[j] = <<>>

\* C9 (amended): when the detector returns zero detections, the whole image is
\* processed as one detection of class "item": the returned list holds exactly
\* that one object, and is empty only when the image cannot be opened or its
\* crop is not saved.
C9_ZeroDetectionsFallbackItem ==
    \A j \in Jobs :
        (job_pc[j] = "returned" /\ job_input[j].no_detections)
            => IF job_input[j].opened /\ job_input[j].crop_failures = 0
               THEN Len(job_result[j]) = 1 /\ WholeImageItem(job_result[j][1])
               ELSE job_result[j] = <<>>

\* C9 witness: a call whose detector returned no box returned the whole image
\* as one object.
C9_Witness ==
    \E j \in Jobs :
        /\ job_pc[j] = "returned"
        /\ job_input[j].no_detections
        /\ Len(job_result[j]) = 1
        /\ WholeImageItem(job_result[j][1])

----------------------------------------------------------------------------
\* Properties of two calls of process_single_image on one instance (SharedSpec).

\* the objects of a returned list that carry the class name c
ObjectsNamed(result, c) ==
    { n \in 1..Len(result) : result[n].object_name = c }

\* the call went through the crop loop of lines 290-347
Cropped(j) ==
    /\ job_pc[j] = "returned"
    /\ job_input[j].class_names # {}

\* C21: the pipeline variant selects per image only. filter_resellable_objects
\* returns its input unchanged, and a call that reached the crop loop returns
\* one object per class name of its consolidated detections, less the crops
\* that were not saved: exactly one per class name when every crop succeeds,
\* whatever the other call on the same instance has processed.
C21_PerImageOnly ==
    /\ \A names \in SUBSET (PipeLabels \cup {"watch", "item"}) :
           filter_resellable_objects(names) = names
    /\ \A j \in DOMAIN job_pc :
           Cropped(j) =>
               /\ \A c \in job_input[j].class_names :
                      Cardinality(ObjectsNamed(job_result[j], c)) <= 1
               /\ \A n \in 1..Len(job_result[j]) :
                      job_result[j][n].object_name \in job_input[j].class_names
               /\ Len(job_result[j]) + job_input[j].crop_failures
                      = Cardinality(job_input[j].class_names)

\* C21 witness: both calls have returned, each with an object of class
\* "laptop".
C21_Witness ==
    /\ \A j \in DOMAIN job_pc :
           /\ Cropped(j)
           /\ ObjectsNamed(job_result[j], "laptop") # {}
    /\ Cardinality(DOMAIN job_pc) = 2

\* C22: when two calls run on the shared instance, the step in which a call
\* runs its crop loop saves every new row of table "cropped" with the photo id
\* of that call's own image, and sets the "processed" flag on that photo only.
C22_CropsUnderOwnPhoto ==
    [][\A j \in DOMAIN job_pc :
          (job_pc[j] = "photo_saved" /\ job_pc'[j] = "returned")
              => /\ \A row \in cropped_rows' \ cropped_rows :
                        row.photo_id = job_local[j].photo_id
                 /\ \A p \in photos' \ photos :
                        p.id = job_local[j].photo_id]_vars

\* C23: crop files written by distinct calls never collide: no object returned
\* by one call has the cropped_path of an object returned by the other call.
C23_CropPathsDistinct ==
    \A j \in DOMAIN job_pc, k \in DOMAIN job_pc :
        j # k =>
            \A n \in 1..Len(job_result[j]), m \in 1..Len(job_result[k]) :
                job_result[j][n].cropped_path # job_result[k][m].cropped_path

----------------------------------------------------------------------------
\* Properties of the job API (JobSpec, JobLiveSpec).

\* the job is in processing_status with the given status
HasStatus(j, statuses) ==
    /\ j \in DOMAIN processing_status
    /\ processing_status[j].status \in statuses

\* C24: while the server keeps running and the thread is scheduled, every job
\* whose thread was started reaches status "completed" or "error", whichever
\* path process_image_async takes.
C24_JobTermination ==
    \A j \in JobIds :
        (thread_pc[j] = "created") ~> HasStatus(j, {"completed", "error"})

\* C24 witness: one thread has returned through the handler of lines 350-363
\* with its job an error, another after pricing raised with its job completed
\* on the phase 1 results.
C24_Witness ==
    \E j \in JobIds, k \in JobIds :
        /\ thread_pc[j] = "ended" /\ HasStatus(j, {"error"})
        /\ thread_pc[k] = "ended" /\ HasStatus(k, {"completed"})
        /\ processing_status[k].results = "partial"

\* how far along queued -> processing -> recognition_complete -> completed
StatusRank(status) ==
    CASE status = "queued" -> 0
      [] status = "processing" -> 1
      [] status = "recognition_complete" -> 2
      [] OTHER -> 3

\* a change of status the ordering allows
MovesForward(old, new) ==
    /\ old \notin {"completed", "error"}
    /\ new = "error" \/ StatusRank(new) > StatusRank(old)

\* C25: a job enters processing_status as "queued"; its status only moves
\* forward along queued -> processing -> recognition_complete -> completed, or
\* from a non-terminal status to "error"; a "completed" or "error" status never
\* changes; and "recognition_complete" always comes with partial_results.
C25_StatusOrder ==
    [][/\ \A j \in DOMAIN processing_status' \ DOMAIN processing_status :
              processing_status'[j].status = "queued"
       /\ \A j \in DOMAIN processing_status' \cap DOMAIN processing_status :
              processing_status'[j].status # processing_status[j].status
                  => MovesForward(processing_status[j].status,
                                  processing_status'[j].status)
       /\ \A j \in DOMAIN processing_status' :
              processing_status'[j].status = "recognition_complete"
                  => processing_status'[j].partial_results]_vars

\* C25 witness: a job has gone through all four statuses to its final
\* results, while another one is waiting in "recognition_complete".
C25_Witness ==
    \E j \in JobIds, k \in JobIds :
        /\ HasStatus(j, {"completed"})
        /\ processing_status[j].results = "final"
        /\ HasStatus(k, {"recognition_complete"})
        /\ processing_status[k].partial_results

\* C26: when the server has started again and load_jobs has run, no loaded job
\* is left in a non-terminal status: a job that was queued, processing or
\* recognition_complete is now "completed" when it had partial or intermediate
\* results, and "error" otherwise.
C26_RestartRecovery ==
    [][Restart =>
          \A j \in DOMAIN processing_status' :
              /\ processing_status'[j].status \in {"completed", "error"}
              /\ jobs_file[j].status \in {"queued", "processing", "recognition_complete"}
                     => processing_status'[j].status =
                            IF jobs_file[j].partial_results
                                   \/ jobs_file[j].results = "intermediate"
                            THEN "completed" ELSE "error"]_vars

\* C27: either clear route removes exactly the jobs whose status is
\* "completed" or "error": afterwards no ended job remains in
\* processing_status and every job still queued, processing or
\* recognition_complete is kept as it was.
C27_ClearRemovesEnded ==
    [][(clear_completed_jobs \/ clear_jobs) =>
          /\ DOMAIN processing_status' =
                 { j \in DOMAIN processing_status :
                     processing_status[j].status \notin {"completed", "error"} }
          /\ \A j \in DOMAIN processing_status' :
                 processing_status'[j] = processing_status[j]]_vars

\* C28: once the thread of a job has returned, the uploaded image of the job
\* is no longer in temp_uploads/, whichever way the thread returned.
C28_UploadRemoved ==
    \A j \in JobIds :
        thread_pc[j] = "ended" => j \notin temp_uploads

----------------------------------------------------------------------------
\* Properties of run_complete_pipeline (RunSpec).

\* the call returned pipeline_results, not the error dict
ReturnedNormally ==
    /\ rcp_pc = "returned"
    /\ "listings_created" \in DOMAIN rcp_results

\* C29: when run_complete_pipeline returns normally, every processed object
\* has exactly one entry in listings_created, whatever stage it stopped at, and
\* the number of entries is the number of detected objects.
C29_OneEntryPerObject ==
    ReturnedNormally =>
        /\ \A n \in 1..Len(rcp_objects) :
               Cardinality({ m \in 1..Len(rcp_results.listings_created) :
                               rcp_results.listings_created[m].object_name
                                   = rcp_objects[n][1] }) = 1
        /\ Len(rcp_results.listings_created) = Len(rcp_objects)
        /\ rcp_results.detected_objects.type = "int"
               => rcp_results.detected_objects.value
                      = Len(rcp_results.listings_created)

====
